---- MODULE Spec2Model ----
(***************************************************************************)
(* Enrollment consistency of the volunteer-website backend.                *)
(*                                                                         *)
(* The committed content of the PostgreSQL tables `event' and              *)
(* `event_volunteer' is shared by the requests.  Every request runs in a   *)
(* SQLAlchemy Session of its own (get_db), at the default isolation level  *)
(* READ COMMITTED: each db.get is a SELECT of the committed state at that  *)
(* moment, the values it returns live in the session's objects, and        *)
(* db.commit() flushes the pending INSERT / UPDATE / DELETE statements and *)
(* commits them as one unit.  The UPDATE the ORM emits for                 *)
(* `found_event.assigned += 1' is `UPDATE event SET assigned = <value      *)
(* computed in Python>', not `assigned = assigned + 1'.                    *)
(*                                                                         *)
(* Matching.  The two match calls read the profiles of volunteers and      *)
(* events and rank them in one SELECT.  PostGIS is the distance provider:  *)
(* ST_Distance gives the distance of two points in metres and ST_DWithin   *)
(* compares it with a radius in metres.  Distances are whole metres here,  *)
(* max_distance is given in thousandths of the chosen unit, and a score is *)
(* a fraction <<numerator, denominator>>; the arithmetic is exact.         *)
(***************************************************************************)
EXTENDS Integers, FiniteSets, Sequences, TLC

\* ---------------------------------------------------------------- bounds
NumSessions == 2
NumVolunteers == 2
NumEvents == 1
MaxCapacity == 2
\* points lie on a line, MaxPoint metres long
MaxPoint == 3
\* max_distance ranges over 0 .. MaxDistance thousandths of a km or a mile
MaxDistance == 2
\* times of day are 0 .. MaxTime
MaxTime == 3
\* dates are the day numbers 1 .. MaxDay (date.toordinal(): day 1 is a Monday)
MaxDay == 8

Sessions == 1..NumSessions
\* the volunteers 1..NumVolunteers are registered; NumVolunteers + 1 is an id
\* no Volunteer row has
Volunteers == 1..NumVolunteers
VolunteerIds == 1..(NumVolunteers + 1)
\* Event ids are handed out by the autoincrement primary key
EventIds == 1..NumEvents
\* the ids of the event table: the match runs store one event more than the
\* enrollment runs create
EventKeys == 1..(NumEvents + 1)

None == "None"

\* OrgAdmin rows: NumAdmins of them; NumAdmins + 1 is an id no row has.
\* Organization 1 exists and owns every event; 2 is an id no row has.
NumAdmins == 2
Admins == 1..NumAdmins
AdminIds == 1..(NumAdmins + 1)
Organizations == {1}
OrganizationIds == {1, 2}

Points == 0..MaxPoint
Times == 0..MaxTime
Days == 1..MaxDay
DistanceUnits == {"km", "mile"}
Distances == 0..MaxDistance

\* the caller of an admin-only operation: an admin of the event's
\* organization, an admin of another organization, or an id without a row
AdminKinds == {"member", "outsider", "missing"}

\* the capacities a request body can carry (EventUpdate.capacity is a plain
\* optional int)
\* <<>> is a body without capacity, <<c>> one with capacity c
CapacityUpdates == {<<>>} \cup {<<c>> : c \in -1..MaxCapacity}

VARIABLES
    events,             \* ids of the rows of table event
    capacity,           \* event.capacity, committed
    assigned,           \* event.assigned, committed
    event_volunteer,    \* number of rows of event_volunteer per (event, volunteer)
    organization_admin, \* organization_admin.org_id per admin, committed
    event_row,          \* the other columns of event, with its location's point
    event_skill,        \* the skills of the event_skill rows per event
    volunteer_location, \* the point of the volunteer's location, or None
    volunteer_skill,    \* the skills of the volunteer_skill rows per volunteer
    volunteer_weekly_schedule,  \* the volunteer_weekly_schedule rows per volunteer
    sess,               \* per request in flight: its Session and its position
    response,           \* what the request that ended in the last step returned
    trail               \* the requests that ran one after the other, alone

vars ==
    <<events, capacity, assigned, event_volunteer, organization_admin,
      event_row, event_skill, volunteer_location, volunteer_skill,
      volunteer_weekly_schedule, sess, response, trail>>

\* the tables of volunteers and admins, which no event request writes
profiles ==
    <<organization_admin, volunteer_location, volunteer_skill,
      volunteer_weekly_schedule>>

db ==
    <<events, capacity, assigned, event_volunteer, organization_admin,
      event_row, event_skill, volunteer_location, volunteer_skill,
      volunteer_weekly_schedule>>

\* ------------------------------------------------------------ column values
\* an optional value is <<>> (None, NULL) or <<x>>
Some(x) == <<x>>

Optional(S) == {<<>>} \cup {<<x>> : x \in S}

Skills == {"Cooking", "Cleaning", "Driving"}

\* str.strip() on the skill strings a request can carry
strip(x) ==
    CASE x = " Cooking " -> "Cooking"
      [] x = "  " -> ""
      [] OTHER -> x

\* {s.strip() for s in skills if s and s.strip()}
stripped_skills(skills) == {strip(x) : x \in {y \in skills : y # "" /\ strip(y) # ""}}

\* a row of volunteer_weekly_schedule: the CHECK constraint wants
\* start_time < end_time, DayOfWeek is MONDAY = 1 .. SUNDAY = 7
DayOfWeek == 1..7

AvailableTimes ==
    {t \in [day_of_week : DayOfWeek, start_time : Times, end_time : Times] :
        t.start_time < t.end_time}

\* the place of an event that has no row
NoEventRow ==
    [name |-> None, description |-> None, urgency |-> None, image_url |-> None,
     day |-> 0, start_time |-> 0, end_time |-> 0, location |-> <<>>]

\* no attribute of found_event is set
NoDirty ==
    [name |-> <<>>, description |-> <<>>, urgency |-> <<>>, image_url |-> <<>>,
     location |-> <<>>, needed_skills |-> <<>>]

Idle ==
    [pc |-> "idle", volunteer_id |-> 0, event_id |-> 0,
     found_assigned |-> 0, found_capacity |-> 0, new_capacity |-> <<>>,
     found_row |-> NoEventRow, dirty |-> NoDirty, args |-> <<>>]
\* found_assigned, found_capacity: found_event as this session loaded it;
\* the session forgets found_capacity once the handler has no use for it
\* new_capacity: the capacity the flush of update_org_event will write
\* found_row: the other columns of found_event as update_org_event loaded them
\* dirty: the attributes update_event_helper has changed on found_event, each
\* <<>> (untouched) or <<new value>>; needed_skills: <<rows loaded, new rows>>
\* args: max_distance and distance_unit of a match call

Results ==
    {"ok", "NotFoundError", "ConflictError", "ValidationError",
     "AuthorizationError", "DatabaseOperationError", "DataError"}

\* the status_code each error class passes to BaseAPIError
status_code(r) ==
    CASE r = "ValidationError" -> 422
      [] r = "AuthorizationError" -> 403
      [] r = "NotFoundError" -> 404
      [] r = "ConflictError" -> 409
      [] r = "DatabaseOperationError" -> 500
      [] r = "DataError" -> 500
      [] OTHER -> 200

\* args: max_distance and distance_unit of a match call, or the body and the
\* image of an update that was turned down; value: the rows a match returned
NoResponse ==
    [op |-> None, volunteer_id |-> 0, event_id |-> 0, result |-> None,
     status_code |-> 0, args |-> <<>>, value |-> <<>>]

\* the handler returns, or raises r, and get_db closes the session
Return(s, op, v, e, r) ==
    /\ sess' = [sess EXCEPT ![s] = Idle]
    /\ response' = [op |-> op, volunteer_id |-> v, event_id |-> e,
                    result |-> r, status_code |-> status_code(r),
                    args |-> <<>>, value |-> <<>>]

\* the handler raises r on a request it was called with
ReturnArgs(s, op, v, e, r, args) ==
    /\ sess' = [sess EXCEPT ![s] = Idle]
    /\ response' = [op |-> op, volunteer_id |-> v, event_id |-> e,
                    result |-> r, status_code |-> status_code(r),
                    args |-> args, value |-> <<>>]

\* a match call returns its rows
ReturnRows(s, op, v, e, args, rows) ==
    /\ sess' = [sess EXCEPT ![s] = Idle]
    /\ response' = [op |-> op, volunteer_id |-> v, event_id |-> e,
                    result |-> "ok", status_code |-> status_code("ok"),
                    args |-> args, value |-> rows]

\* number of event_volunteer rows of event e among the volunteers vs
RECURSIVE SumRows(_, _)
SumRows(e, vs) ==
    IF vs = {} THEN 0
    ELSE LET v == CHOOSE x \in vs : TRUE
         IN event_volunteer[<<e, v>>] + SumRows(e, vs \ {v})

\* len(event.volunteers)
Enrolled(e) == SumRows(e, Volunteers)

\* get_event_volunteer: the row or None
get_event_volunteer(v, e) ==
    IF v \in Volunteers /\ e \in events /\ event_volunteer[<<e, v>>] > 0
    THEN <<e, v>> ELSE None

\* ------------------------------------------------------ table constraints
\* the CHECK constraints without ck_event_assigned_le_capacity
ck_event_no_assigned_le_capacity(a, c) ==
    /\ c >= 0
    /\ a >= 0

\* Event.__table_args__: the CHECK constraints on a row of event
ck_event(a, c) ==
    /\ c >= 0
    /\ a >= 0
    /\ a <= c

\* a table without the primary key
pk_event_volunteer_absent(e, v) == TRUE

\* EventVolunteer: (event_id, volunteer_id) is the primary key
pk_event_volunteer(e, v) == event_volunteer[<<e, v>>] = 0

\* -------------------------------------------- requests that ran on their own
\* trail.log holds the last signups and withdraws that ran from their first
\* statement to their last while no other request was in flight, the way the
\* tests call them; it is emptied as soon as two requests overlap or another
\* kind of request that writes runs; match calls, which write nothing, may
\* run in between.  trail.solo: the request in flight is alone so far.
\* trail.matched: the rows the last match call that ran alone returned, <<>>
\* once a request that can write has begun or ended since.
OthersIdle(s) == \A t \in Sessions \ {s} : sess[t].pc = "idle"

NoTrail == [solo |-> FALSE, log |-> <<>>, matched |-> <<>>]

\* a match call returned rows; it is remembered if no other request was in
\* flight
Matched(s, op, id, args, rows) ==
    trail' = [trail EXCEPT !.matched =
                 IF OthersIdle(s)
                 THEN <<[op |-> op, id |-> id, args |-> args, value |-> rows]>>
                 ELSE <<>>]

Last1(q) == IF Len(q) = 0 THEN <<>> ELSE <<q[Len(q)]>>

\* what a signup or a withdraw that ran alone found and returned
Entry(op, v, e, r) ==
    [op |-> op, volunteer_id |-> v, event_id |-> e, result |-> r,
     before |-> assigned[e],
     had_row |-> get_event_volunteer(v, e) # None]

TrailBegin(s) ==
    trail' = IF OthersIdle(s)
             THEN [solo |-> TRUE, log |-> Last1(trail.log), matched |-> <<>>]
             ELSE NoTrail

TrailEnd(s, op, v, e, r) ==
    trail' = IF trail.solo /\ OthersIdle(s)
             THEN [solo |-> FALSE, log |-> Append(trail.log, Entry(op, v, e, r)),
                   matched |-> <<>>]
             ELSE NoTrail

TrailBeginEnd(s, op, v, e, r) ==
    trail' = IF OthersIdle(s)
             THEN [solo |-> FALSE,
                   log |-> Append(Last1(trail.log), Entry(op, v, e, r)),
                   matched |-> <<>>]
             ELSE NoTrail

\* the first admin runs organization 1, the others belong to none yet
InitialAdmins == [a \in Admins |-> IF a = 1 THEN Some(1) ELSE <<>>]

\* the volunteers the factories register: they live along the line, the
\* first one cooks and is free on Thursday mornings
InitialLocations == [v \in Volunteers |-> Some((v - 1) % (MaxPoint + 1))]

InitialSkills == [v \in Volunteers |-> IF v = 1 THEN {"Cooking"} ELSE {}]

InitialSchedules ==
    [v \in Volunteers |->
        IF v = 1 THEN {[day_of_week |-> 4, start_time |-> 0, end_time |-> 1]}
        ELSE {}]

Init ==
    /\ events = {}
    /\ capacity = [e \in EventKeys |-> 0]
    /\ assigned = [e \in EventKeys |-> 0]
    /\ event_volunteer = [p \in EventKeys \X Volunteers |-> 0]
    /\ organization_admin = InitialAdmins
    /\ event_row = [e \in EventKeys |-> NoEventRow]
    /\ event_skill = [e \in EventKeys |-> {}]
    /\ volunteer_location = InitialLocations
    /\ volunteer_skill = InitialSkills
    /\ volunteer_weekly_schedule = InitialSchedules
    /\ sess = [s \in Sessions |-> Idle]
    /\ response = NoResponse
    /\ trail = NoTrail

\* ------------------------------------------------------------------ admins
\* what the admin lookup and the organization check of an admin-only
\* operation on organization org_id find for admin_id
AdminKind(admin_id, org_id) ==
    IF admin_id \notin Admins THEN "missing"
    ELSE IF organization_admin[admin_id] = Some(org_id) THEN "member"
    ELSE "outsider"

\* --------------------------------------------------------- create_org_event
\* the EventCreate bodies that pass validation: capacity_positive admits only
\* capacity > 0 and time_nonneg only start_time < end_time
EventCreate(cap, skills, day, start_time, end_time, location) ==
    [name |-> "Cleanup", description |-> "Clean the park", urgency |-> "Low",
     capacity |-> cap, needed_skills |-> skills, day |-> day,
     start_time |-> start_time, end_time |-> end_time, location |-> location]

\* the new row gets assigned from the column default; event.location_id is
\* NOT NULL, so an event without location fails at the commit
\* the validator that agrees with the table's check start_time <= end_time
time_nonneg_or_equal(event) == event.start_time <= event.end_time

\* EventCreate.time_nonneg
time_nonneg(event) == event.start_time < event.end_time

create_org_event(s, event, admin) ==
    /\ sess[s].pc = "idle"
    /\ event.capacity > 0
    /\ time_nonneg(event)
    /\ trail' = NoTrail
    /\ IF admin = "missing"
       THEN /\ Return(s, "create_org_event", 0, 0, "NotFoundError")
            /\ UNCHANGED db
       ELSE IF admin = "outsider"
       THEN /\ Return(s, "create_org_event", 0, 0, "AuthorizationError")
            /\ UNCHANGED db
       ELSE IF event.location = <<>>
       THEN /\ Return(s, "create_org_event", 0, 0, "DatabaseOperationError")
            /\ UNCHANGED db
       ELSE /\ Cardinality(events) < NumEvents
            /\ LET id == Cardinality(events) + 1
               IN /\ events' = events \cup {id}
                  /\ capacity' = [capacity EXCEPT ![id] = event.capacity]
                  /\ assigned' = [assigned EXCEPT ![id] = 0]
                  /\ event_row' = [event_row EXCEPT ![id] =
                         [name |-> event.name, description |-> event.description,
                          urgency |-> event.urgency, image_url |-> None,
                          day |-> event.day, start_time |-> event.start_time,
                          end_time |-> event.end_time, location |-> event.location]]
                  /\ event_skill' = [event_skill EXCEPT ![id] =
                         stripped_skills(event.needed_skills)]
                  /\ Return(s, "create_org_event", 0, id, "ok")
            /\ UNCHANGED <<event_volunteer, profiles>>

\* --------------------------------------------------- signup_volunteer_event
\* db.get(Volunteer, volunteer_id)
signup_get_volunteer(s, v, e) ==
    /\ sess[s].pc = "idle"
    /\ IF v \notin Volunteers
       THEN /\ Return(s, "signup_volunteer_event", v, e, "NotFoundError")
            /\ TrailBeginEnd(s, "signup_volunteer_event", v, e, "NotFoundError")
       ELSE /\ sess' = [sess EXCEPT ![s] = [Idle EXCEPT !.pc = "signup_get_event",
                            !.volunteer_id = v, !.event_id = e]]
            /\ response' = NoResponse
            /\ TrailBegin(s)
    /\ UNCHANGED db

\* the handler without its `found_event is None' branch
signup_get_event_unchecked(s) ==
    /\ sess[s].pc = "signup_get_event"
    /\ LET e == sess[s].event_id
       IN /\ sess' = [sess EXCEPT ![s].pc = "signup_check",
                                  ![s].found_assigned = assigned[e],
                                  ![s].found_capacity = capacity[e]]
          /\ response' = NoResponse
          /\ UNCHANGED trail
    /\ UNCHANGED db

\* db.get(Event, event_id): the session now holds the row as it was read
signup_get_event(s) ==
    /\ sess[s].pc = "signup_get_event"
    /\ LET e == sess[s].event_id
           v == sess[s].volunteer_id
       IN IF e \notin events
          THEN /\ Return(s, "signup_volunteer_event", v, e, "NotFoundError")
               /\ TrailEnd(s, "signup_volunteer_event", v, e, "NotFoundError")
          ELSE /\ sess' = [sess EXCEPT ![s].pc = "signup_check",
                                       ![s].found_assigned = assigned[e],
                                       ![s].found_capacity = capacity[e]]
               /\ response' = NoResponse
               /\ UNCHANGED trail
    /\ UNCHANGED db

\* the two checks in the other order
signup_check_capacity_first(s) ==
    /\ sess[s].pc = "signup_check"
    /\ LET e == sess[s].event_id
           v == sess[s].volunteer_id
       IN IF sess[s].found_assigned >= sess[s].found_capacity
          THEN /\ Return(s, "signup_volunteer_event", v, e, "ValidationError")
               /\ TrailEnd(s, "signup_volunteer_event", v, e, "ValidationError")
          ELSE IF event_volunteer[<<e, v>>] > 0
          THEN /\ Return(s, "signup_volunteer_event", v, e, "ConflictError")
               /\ TrailEnd(s, "signup_volunteer_event", v, e, "ConflictError")
          ELSE /\ sess' = [sess EXCEPT ![s].pc = "signup_commit",
                                       ![s].found_capacity = 0]
               /\ response' = NoResponse
               /\ UNCHANGED trail
    /\ UNCHANGED db

\* the capacity check compares with > in place of >=
signup_check_off_by_one(s) ==
    /\ sess[s].pc = "signup_check"
    /\ LET e == sess[s].event_id
           v == sess[s].volunteer_id
       IN IF event_volunteer[<<e, v>>] > 0
          THEN /\ Return(s, "signup_volunteer_event", v, e, "ConflictError")
               /\ TrailEnd(s, "signup_volunteer_event", v, e, "ConflictError")
          ELSE IF sess[s].found_assigned > sess[s].found_capacity
          THEN /\ Return(s, "signup_volunteer_event", v, e, "ValidationError")
               /\ TrailEnd(s, "signup_volunteer_event", v, e, "ValidationError")
          ELSE /\ sess' = [sess EXCEPT ![s].pc = "signup_commit",
                                       ![s].found_capacity = 0]
               /\ response' = NoResponse
               /\ UNCHANGED trail
    /\ UNCHANGED db

\* db.get(EventVolunteer, (event_id, volunteer_id)), then the capacity check
\* on the values the session holds
signup_check(s) ==
    /\ sess[s].pc = "signup_check"
    /\ LET e == sess[s].event_id
           v == sess[s].volunteer_id
       IN IF event_volunteer[<<e, v>>] > 0
          THEN /\ Return(s, "signup_volunteer_event", v, e, "ConflictError")
               /\ TrailEnd(s, "signup_volunteer_event", v, e, "ConflictError")
          ELSE IF sess[s].found_assigned >= sess[s].found_capacity
          THEN /\ Return(s, "signup_volunteer_event", v, e, "ValidationError")
               /\ TrailEnd(s, "signup_volunteer_event", v, e, "ValidationError")
          ELSE /\ sess' = [sess EXCEPT ![s].pc = "signup_commit",
                                       ![s].found_capacity = 0]
               /\ response' = NoResponse
               /\ UNCHANGED trail
    /\ UNCHANGED db

\* the commit of a signup on a table without check constraints
signup_commit_without_check(s) ==
    /\ sess[s].pc = "signup_commit"
    /\ LET e == sess[s].event_id
           v == sess[s].volunteer_id
           a == sess[s].found_assigned + 1
       IN IF pk_event_volunteer(e, v)
          THEN /\ assigned' = [assigned EXCEPT ![e] = a]
               /\ event_volunteer' = [event_volunteer EXCEPT ![<<e, v>>] = @ + 1]
               /\ Return(s, "signup_volunteer_event", v, e, "ok")
               /\ TrailEnd(s, "signup_volunteer_event", v, e, "ok")
          ELSE /\ Return(s, "signup_volunteer_event", v, e, "DatabaseOperationError")
               /\ TrailEnd(s, "signup_volunteer_event", v, e, "DatabaseOperationError")
               /\ UNCHANGED <<assigned, event_volunteer>>
    /\ UNCHANGED <<events, capacity, event_row, event_skill, profiles>>

\* db.add(new_volunteer_event); found_event.assigned += 1; db.commit():
\* UPDATE event SET assigned = <found + 1>, INSERT INTO event_volunteer, COMMIT.
\* A violated constraint raises IntegrityError: rollback, DatabaseOperationError.
signup_commit(s) ==
    /\ sess[s].pc = "signup_commit"
    /\ LET e == sess[s].event_id
           v == sess[s].volunteer_id
           a == sess[s].found_assigned + 1
       IN IF ck_event(a, capacity[e]) /\ pk_event_volunteer(e, v)
          THEN /\ assigned' = [assigned EXCEPT ![e] = a]
               /\ event_volunteer' = [event_volunteer EXCEPT ![<<e, v>>] = @ + 1]
               /\ Return(s, "signup_volunteer_event", v, e, "ok")
               /\ TrailEnd(s, "signup_volunteer_event", v, e, "ok")
          ELSE /\ Return(s, "signup_volunteer_event", v, e, "DatabaseOperationError")
               /\ TrailEnd(s, "signup_volunteer_event", v, e, "DatabaseOperationError")
               /\ UNCHANGED <<assigned, event_volunteer>>
    /\ UNCHANGED <<events, capacity, event_row, event_skill, profiles>>

\* --------------------------------------------------- remove_volunteer_event
\* the handler without its `event_volunteer is None' branch
remove_get_event_volunteer_unchecked(s, v, e) ==
    /\ sess[s].pc = "idle"
    /\ sess' = [sess EXCEPT ![s] = [Idle EXCEPT !.pc = "remove_load_event",
                     !.volunteer_id = v, !.event_id = e]]
    /\ response' = NoResponse
    /\ TrailBegin(s)
    /\ UNCHANGED db

\* db.get(EventVolunteer, (event_id, volunteer_id))
remove_get_event_volunteer(s, v, e) ==
    /\ sess[s].pc = "idle"
    /\ IF get_event_volunteer(v, e) = None
       THEN /\ Return(s, "remove_volunteer_event", v, e, "NotFoundError")
            /\ TrailBeginEnd(s, "remove_volunteer_event", v, e, "NotFoundError")
       ELSE /\ sess' = [sess EXCEPT ![s] = [Idle EXCEPT !.pc = "remove_load_event",
                            !.volunteer_id = v, !.event_id = e]]
            /\ response' = NoResponse
            /\ TrailBegin(s)
    /\ UNCHANGED db

\* event = event_volunteer.event (lazy load), then the check on assigned
remove_load_event(s) ==
    /\ sess[s].pc = "remove_load_event"
    /\ LET e == sess[s].event_id
           v == sess[s].volunteer_id
       IN IF assigned[e] <= 0
          THEN /\ Return(s, "remove_volunteer_event", v, e, "ValidationError")
               /\ TrailEnd(s, "remove_volunteer_event", v, e, "ValidationError")
          ELSE /\ sess' = [sess EXCEPT ![s].pc = "remove_commit",
                                       ![s].found_assigned = assigned[e]]
               /\ response' = NoResponse
               /\ UNCHANGED trail
    /\ UNCHANGED db

\* the withdrawal that deletes by event only
remove_commit_by_event(s) ==
    /\ sess[s].pc = "remove_commit"
    /\ LET e == sess[s].event_id
           v == sess[s].volunteer_id
           a == sess[s].found_assigned - 1
       IN IF ck_event(a, capacity[e])
          THEN /\ assigned' = [assigned EXCEPT ![e] = a]
               /\ event_volunteer' = [p \in EventKeys \X Volunteers |->
                                          IF p[1] = e THEN 0 ELSE event_volunteer[p]]
               /\ Return(s, "remove_volunteer_event", v, e, "ok")
               /\ TrailEnd(s, "remove_volunteer_event", v, e, "ok")
          ELSE /\ Return(s, "remove_volunteer_event", v, e, "DatabaseOperationError")
               /\ TrailEnd(s, "remove_volunteer_event", v, e, "DatabaseOperationError")
               /\ UNCHANGED <<assigned, event_volunteer>>
    /\ UNCHANGED <<events, capacity, event_row, event_skill, profiles>>

\* event.assigned -= 1; db.delete(event_volunteer); db.commit():
\* UPDATE event SET assigned = <found - 1>, DELETE FROM event_volunteer, COMMIT.
\* A DELETE that matches no row is a warning of the ORM, not an error.
remove_commit(s) ==
    /\ sess[s].pc = "remove_commit"
    /\ LET e == sess[s].event_id
           v == sess[s].volunteer_id
           a == sess[s].found_assigned - 1
       IN IF ck_event(a, capacity[e])
          THEN /\ assigned' = [assigned EXCEPT ![e] = a]
               /\ event_volunteer' = [event_volunteer EXCEPT ![<<e, v>>] =
                                          IF @ > 0 THEN @ - 1 ELSE 0]
               /\ Return(s, "remove_volunteer_event", v, e, "ok")
               /\ TrailEnd(s, "remove_volunteer_event", v, e, "ok")
          ELSE /\ Return(s, "remove_volunteer_event", v, e, "DatabaseOperationError")
               /\ TrailEnd(s, "remove_volunteer_event", v, e, "DatabaseOperationError")
               /\ UNCHANGED <<assigned, event_volunteer>>
    /\ UNCHANGED <<events, capacity, event_row, event_skill, profiles>>

\* --------------------------------------------------------- update_org_event
\* db.get(Event, event_id)
update_get_event(s, e) ==
    /\ sess[s].pc = "idle"
    /\ trail' = NoTrail
    /\ IF e \notin events
       THEN Return(s, "update_org_event", 0, e, "NotFoundError")
       ELSE /\ sess' = [sess EXCEPT ![s] = [Idle EXCEPT !.pc = "update_helper",
                            !.event_id = e,
                            !.found_assigned = assigned[e],
                            !.found_capacity = capacity[e],
                            !.found_row = event_row[e]]]
            /\ response' = NoResponse
    /\ UNCHANGED db

\* the EventUpdate bodies: every field is optional; a plain int for capacity
\* and nothing checks day, start_time and end_time
EventUpdate(name, description, location, needed_skills, urgency, cap, day, start_time, end_time) ==
    [name |-> name, description |-> description, location |-> location,
     needed_skills |-> needed_skills, urgency |-> urgency, capacity |-> cap,
     day |-> day, start_time |-> start_time, end_time |-> end_time]

\* an attribute set to a value: the object is dirty only if the value differs
\* from the loaded one
Changed(update, loaded) ==
    IF update = <<>> \/ update[1] = loaded THEN <<>> ELSE update

\* update_event_helper up to the capacity checks: the attributes it sets on
\* old_event, in its order; location goes through update_location, which
\* always assigns the coordinates; day, start_time and end_time are not read
set_attributes(old_event, old_skills, event_updates, image_url) ==
    [name |-> Changed(event_updates.name, old_event.name),
     description |-> Changed(event_updates.description, old_event.description),
     location |-> IF event_updates.location = <<>> THEN <<>>
                  ELSE Some(event_updates.location),
     needed_skills |-> IF event_updates.needed_skills = <<>> THEN <<>>
                       ELSE <<old_skills, stripped_skills(event_updates.needed_skills[1])>>,
     urgency |-> Changed(event_updates.urgency, old_event.urgency),
     image_url |-> Changed(image_url, old_event.image_url)]

\* the helper without its check against old_event.assigned
update_helper_unchecked(s, admin, event_updates, image_url) ==
    /\ sess[s].pc = "update_helper"
    /\ trail' = NoTrail
    /\ LET e == sess[s].event_id
           cap == event_updates.capacity
       IN IF admin = "missing"
          THEN Return(s, "update_org_event", 0, e, "NotFoundError")
          ELSE IF admin = "outsider"
          THEN Return(s, "update_org_event", 0, e, "AuthorizationError")
          ELSE IF cap # <<>> /\ cap[1] < 0
          THEN ReturnArgs(s, "update_org_event", 0, e, "ValidationError",
                          <<event_updates, image_url>>)
          ELSE /\ sess' = [sess EXCEPT ![s].pc = "update_commit",
                                       ![s].found_assigned = 0,
                                       ![s].found_capacity = 0,
                                       ![s].found_row = NoEventRow,
                                       ![s].dirty =
                                           set_attributes(sess[s].found_row,
                                               event_skill[e], event_updates, image_url),
                                       ![s].new_capacity =
                                           IF cap # <<>> /\ cap[1] = sess[s].found_capacity
                                           THEN <<>> ELSE cap]
               /\ response' = NoResponse
    /\ UNCHANGED db

\* db.get(OrgAdmin, admin_id), the organization check, then
\* update_event_helper on the Event object the session holds: it sets the
\* other attributes first and checks event_updates.capacity last, and a
\* ValueError leaves the commit out, so nothing it has set is written.
\* Setting an attribute to the value it was loaded with leaves the object
\* clean, so only a capacity that differs from the loaded one is kept for the
\* flush; the loaded values are not used again.
update_helper(s, admin, event_updates, image_url) ==
    /\ sess[s].pc = "update_helper"
    /\ trail' = NoTrail
    /\ LET e == sess[s].event_id
           cap == event_updates.capacity
       IN IF admin = "missing"
          THEN Return(s, "update_org_event", 0, e, "NotFoundError")
          ELSE IF admin = "outsider"
          THEN Return(s, "update_org_event", 0, e, "AuthorizationError")
          ELSE IF cap # <<>> /\ cap[1] < sess[s].found_assigned
          THEN ReturnArgs(s, "update_org_event", 0, e, "ValidationError",
                          <<event_updates, image_url>>)
          ELSE IF cap # <<>> /\ cap[1] < 0
          THEN ReturnArgs(s, "update_org_event", 0, e, "ValidationError",
                          <<event_updates, image_url>>)
          ELSE /\ sess' = [sess EXCEPT ![s].pc = "update_commit",
                                       ![s].found_assigned = 0,
                                       ![s].found_capacity = 0,
                                       ![s].found_row = NoEventRow,
                                       ![s].dirty =
                                           set_attributes(sess[s].found_row,
                                               event_skill[e], event_updates, image_url),
                                       ![s].new_capacity =
                                           IF cap # <<>> /\ cap[1] = sess[s].found_capacity
                                           THEN <<>> ELSE cap]
               /\ response' = NoResponse
    /\ UNCHANGED db

\* the row after UPDATE event SET <the dirty columns>
flushed_row(row, dirty) ==
    [row EXCEPT !.name = IF dirty.name = <<>> THEN @ ELSE dirty.name[1],
                !.description = IF dirty.description = <<>> THEN @
                                ELSE dirty.description[1],
                !.urgency = IF dirty.urgency = <<>> THEN @ ELSE dirty.urgency[1],
                !.image_url = IF dirty.image_url = <<>> THEN @ ELSE dirty.image_url[1],
                !.location = IF dirty.location = <<>> THEN @ ELSE dirty.location[1]]

\* the event_skill rows after DELETE of the rows the session loaded and INSERT
\* of the new ones (a DELETE that matches no row is a warning, not an error)
flushed_skills(rows, dirty) ==
    IF dirty.needed_skills = <<>> THEN rows
    ELSE (rows \ dirty.needed_skills[1]) \cup dirty.needed_skills[2]

\* (event_id, skill) is the primary key of event_skill: an INSERT of a skill
\* that a row the session did not load already has violates it
pk_event_skill(rows, dirty) ==
    \/ dirty.needed_skills = <<>>
    \/ (rows \ dirty.needed_skills[1]) \cap dirty.needed_skills[2] = {}

\* a commit that also writes the assigned column back from the capacity
update_commit_writes_assigned(s) ==
    /\ sess[s].pc = "update_commit"
    /\ trail' = NoTrail
    /\ LET e == sess[s].event_id
           cap == sess[s].new_capacity
           dirty == sess[s].dirty
       IN IF /\ cap # <<>> => ck_event(assigned[e], cap[1])
             /\ pk_event_skill(event_skill[e], dirty)
          THEN /\ capacity' = [capacity EXCEPT ![e] = IF cap = <<>> THEN @ ELSE cap[1]]
               /\ assigned' = [assigned EXCEPT ![e] = IF cap = <<>> THEN @ ELSE cap[1]]
               /\ event_row' = [event_row EXCEPT ![e] = flushed_row(@, dirty)]
               /\ event_skill' = [event_skill EXCEPT ![e] = flushed_skills(@, dirty)]
               /\ Return(s, "update_org_event", 0, e, "ok")
          ELSE /\ Return(s, "update_org_event", 0, e, "DatabaseOperationError")
               /\ UNCHANGED <<capacity, assigned, event_row, event_skill>>
    /\ UNCHANGED <<events, event_volunteer, profiles>>

\* db.commit(): UPDATE event SET <the dirty columns>, the event_skill rows
\* replaced, COMMIT; a violated constraint rolls all of it back
update_commit(s) ==
    /\ sess[s].pc = "update_commit"
    /\ trail' = NoTrail
    /\ LET e == sess[s].event_id
           cap == sess[s].new_capacity
           dirty == sess[s].dirty
       IN IF /\ cap # <<>> => ck_event(assigned[e], cap[1])
             /\ pk_event_skill(event_skill[e], dirty)
          THEN /\ capacity' = [capacity EXCEPT ![e] = IF cap = <<>> THEN @ ELSE cap[1]]
               /\ event_row' = [event_row EXCEPT ![e] = flushed_row(@, dirty)]
               /\ event_skill' = [event_skill EXCEPT ![e] = flushed_skills(@, dirty)]
               /\ Return(s, "update_org_event", 0, e, "ok")
          ELSE /\ Return(s, "update_org_event", 0, e, "DatabaseOperationError")
               /\ UNCHANGED <<capacity, event_row, event_skill>>
    /\ UNCHANGED <<events, assigned, event_volunteer, profiles>>

\* --------------------------------------------------------- signup_org_admin
\* the admin joins the organization: found_org.admins.append(found_admin)
\* sets organization_admin.org_id
signup_org_admin(s, org_id, admin_id) ==
    /\ sess[s].pc = "idle"
    /\ trail' = NoTrail
    /\ IF admin_id \notin Admins
       THEN /\ Return(s, "signup_org_admin", 0, 0, "NotFoundError")
            /\ UNCHANGED db
       ELSE IF org_id \notin Organizations
       THEN /\ Return(s, "signup_org_admin", 0, 0, "NotFoundError")
            /\ UNCHANGED db
       ELSE IF organization_admin[admin_id] = Some(org_id)
       THEN /\ Return(s, "signup_org_admin", 0, 0, "ConflictError")
            /\ UNCHANGED db
       ELSE /\ organization_admin' = [organization_admin EXCEPT ![admin_id] = Some(org_id)]
            /\ Return(s, "signup_org_admin", 0, 0, "ok")
            /\ UNCHANGED <<events, capacity, assigned, event_volunteer, event_row,
                           event_skill, volunteer_location, volunteer_skill,
                           volunteer_weekly_schedule>>

\* ------------------------------------------------------------------ scoring
SKILLS_MAX == 2

LOCATION_MAX == 4

SCHEDULE_MAX == 4

\* a score is the fraction <<numerator, denominator>>; the scores of one query
\* share the denominator, and a denominator 0 is a division by zero
Whole(n, den) == <<n * den, den>>

Plus(x, y) == <<x[1] + y[1], x[2]>>

\* the count of all of the entity's skill rows, capped at max_weight
skills_match_score_any_skill(entity_skills, target_skills, max_weight) ==
    LET skills_count == Cardinality(entity_skills)
    IN IF skills_count > max_weight THEN max_weight ELSE skills_count

\* the count of the entity's skill rows whose skill is IN target_skills,
\* capped at max_weight
skills_match_score(entity_skills, target_skills, max_weight) ==
    LET skills_count == Cardinality({r \in entity_skills : r \in target_skills})
    IN IF skills_count > max_weight THEN max_weight ELSE skills_count

\* extract("isodow", day): Monday = 1 .. Sunday = 7
isodow(day) == ((day - 1) % 7) + 1

\* the test with open intervals: a slot that only touches the window fails
schedule_overlap_score_open(times_available, event_day, event_start_time, event_end_time, max_weight) ==
    IF \E t \in times_available :
           /\ t.day_of_week = isodow(event_day)
           /\ t.start_time < event_end_time
           /\ t.end_time > event_start_time
    THEN max_weight ELSE 0

\* max_weight if a volunteer_weekly_schedule row of the volunteer is on the
\* event's weekday and overlaps its window, else 0
schedule_overlap_score(times_available, event_day, event_start_time, event_end_time, max_weight) ==
    IF \E t \in times_available :
           /\ t.day_of_week = isodow(event_day)
           /\ t.start_time <= event_end_time
           /\ t.end_time >= event_start_time
    THEN max_weight ELSE 0

\* the EXISTS subquery match_events_to_volunteer builds on its own
schedules_overlap(times_available, event) ==
    \E t \in times_available :
        /\ t.day_of_week = isodow(event.day)
        /\ t.start_time <= event.end_time
        /\ t.end_time >= event.start_time

\* ST_Distance of two points, in metres
ST_Distance(a, b) == IF a >= b THEN a - b ELSE b - a

\* distance_expr: the distance in thousandths of the unit, as a fraction:
\* ST_Distance * 0.000621371 miles or ST_Distance / 1000 km
distance_expr(metres, distance_unit) ==
    IF distance_unit = "mile" THEN <<metres * 621371, 1000000>>
    ELSE <<metres, 1>>

\* a query without its WHERE clause
everywhere(center, point, max_distance, distance_unit) == TRUE

\* ST_DWithin(center, point, max_distance * (1609.34 | 1000)), with
\* max_distance in thousandths of the unit
within_radius(center, point, max_distance, distance_unit) ==
    IF distance_unit = "mile"
    THEN ST_Distance(center, point) * 100000 <= max_distance * 160934
    ELSE ST_Distance(center, point) <= max_distance

\* the score without the clamp at 0
distance_based_location_score_unclamped(distance, max_distance, max_weight) ==
    LET den == max_distance * distance[2]
        percentage == max_distance * distance[2] - distance[1]
    IN IF den = 0 THEN <<0, 0>>
       ELSE IF percentage >= den THEN <<max_weight * den, den>>
       ELSE <<percentage * max_weight, den>>

\* percentage = (max_distance - distance) / max_distance, then the CASE;
\* the score has the denominator max_distance * distance[2], which is 0 when
\* max_distance is
distance_based_location_score(distance, max_distance, max_weight) ==
    LET den == max_distance * distance[2]
        percentage == max_distance * distance[2] - distance[1]
    IN IF den = 0 THEN <<0, 0>>
       ELSE IF percentage <= 0 THEN <<0, den>>
       ELSE IF percentage >= den THEN <<max_weight * den, den>>
       ELSE <<percentage * max_weight, den>>

\* the sequences that hold each element of the set rows once
Orderings(rows) ==
    {q \in [1..Cardinality(rows) -> rows] :
        \A i, j \in 1..Cardinality(rows) : i # j => q[i] # q[j]}

\* a result without ORDER BY
unordered(rows) == Orderings(rows)

\* ORDER BY total_score DESC: rows of equal score come in any order
order_by_desc(rows) ==
    {q \in Orderings(rows) :
        \A i \in 1..(Cardinality(rows) - 1) :
            q[i].total_score[1] >= q[i + 1].total_score[1]}

MatchVolunteersOp == "match_volunteers_to_event"

MatchEventsOp == "match_events_to_volunteer"

\* ------------------------------------------------ match_volunteers_to_event
\* a total that leaves the skills out
volunteer_total_score_without_skills(v, e, max_distance, distance_unit) ==
    LET location_score ==
            distance_based_location_score(
                distance_expr(ST_Distance(event_row[e].location[1],
                                          volunteer_location[v][1]), distance_unit),
                max_distance, LOCATION_MAX)
        schedule_score ==
            schedule_overlap_score(volunteer_weekly_schedule[v], event_row[e].day,
                event_row[e].start_time, event_row[e].end_time, SCHEDULE_MAX)
    IN Plus(location_score, Whole(schedule_score, location_score[2]))

\* total_score of volunteer v for event e
volunteer_total_score(v, e, max_distance, distance_unit) ==
    LET location_score ==
            distance_based_location_score(
                distance_expr(ST_Distance(event_row[e].location[1],
                                          volunteer_location[v][1]), distance_unit),
                max_distance, LOCATION_MAX)
        skills_score == skills_match_score(volunteer_skill[v], event_skill[e], SKILLS_MAX)
        schedule_score ==
            schedule_overlap_score(volunteer_weekly_schedule[v], event_row[e].day,
                event_row[e].start_time, event_row[e].end_time, SCHEDULE_MAX)
    IN Plus(Plus(location_score, Whole(skills_score, location_score[2])),
            Whole(schedule_score, location_score[2]))

\* the rows of volunteer JOIN location WHERE within_radius, with their scores
matched_volunteers(e, max_distance, distance_unit) ==
    {[id |-> v, total_score |-> volunteer_total_score(v, e, max_distance, distance_unit)] :
        v \in {w \in Volunteers :
                 /\ volunteer_location[w] # <<>>
                 /\ within_radius(event_row[e].location[1], volunteer_location[w][1],
                                  max_distance, distance_unit)}}

\* db.get(OrgAdmin, admin_id) and db.get(Event, event_id)
match_volunteers_get(s, event_id, admin_id, max_distance, distance_unit) ==
    /\ sess[s].pc = "idle"
    /\ IF admin_id \notin Admins
       THEN Return(s, MatchVolunteersOp, 0, event_id, "NotFoundError")
       ELSE IF event_id \notin events
       THEN Return(s, MatchVolunteersOp, 0, event_id, "NotFoundError")
       ELSE /\ sess' = [sess EXCEPT ![s] = [Idle EXCEPT !.pc = "match_volunteers_query",
                            !.event_id = event_id,
                            !.args = <<max_distance, distance_unit>>]]
            /\ response' = NoResponse
    /\ UNCHANGED <<db, trail>>

\* a query that holds a place for the best match while it answers
match_volunteers_query_reserving(s) ==
    /\ sess[s].pc = "match_volunteers_query"
    /\ LET e == sess[s].event_id
           rows == matched_volunteers(e, sess[s].args[1], sess[s].args[2])
       IN IF \E r \in rows : r.total_score[2] = 0
          THEN /\ Return(s, MatchVolunteersOp, 0, e, "DataError")
               /\ UNCHANGED <<trail, db>>
          ELSE \E q \in order_by_desc(rows) :
                   /\ ReturnRows(s, MatchVolunteersOp, 0, e, sess[s].args, q)
                   /\ Matched(s, MatchVolunteersOp, e, sess[s].args, q)
                   /\ assigned' = [assigned EXCEPT ![e] =
                          IF q # <<>> /\ @ < capacity[e] THEN @ + 1 ELSE @]
                   /\ UNCHANGED <<events, capacity, event_volunteer, event_row,
                                  event_skill, profiles>>

\* the event's location and needed_skills are loaded and the query runs; a
\* division by zero in a row's score fails the statement
match_volunteers_query(s) ==
    /\ sess[s].pc = "match_volunteers_query"
    /\ LET e == sess[s].event_id
           rows == matched_volunteers(e, sess[s].args[1], sess[s].args[2])
       IN IF \E r \in rows : r.total_score[2] = 0
          THEN /\ Return(s, MatchVolunteersOp, 0, e, "DataError")
               /\ UNCHANGED trail
          ELSE \E q \in order_by_desc(rows) :
                   /\ ReturnRows(s, MatchVolunteersOp, 0, e, sess[s].args, q)
                   /\ Matched(s, MatchVolunteersOp, e, sess[s].args, q)
    /\ UNCHANGED db

\* ------------------------------------------------ match_events_to_volunteer
\* matching_score of event e for volunteer v
event_total_score(e, v, max_distance, distance_unit) ==
    LET location_score ==
            distance_based_location_score(
                distance_expr(ST_Distance(volunteer_location[v][1],
                                          event_row[e].location[1]), distance_unit),
                max_distance, LOCATION_MAX)
        skills_score == skills_match_score(event_skill[e], volunteer_skill[v], SKILLS_MAX)
        schedule_score ==
            IF schedules_overlap(volunteer_weekly_schedule[v], event_row[e])
            THEN SCHEDULE_MAX ELSE 0
    IN Plus(Plus(location_score, Whole(skills_score, location_score[2])),
            Whole(schedule_score, location_score[2]))

\* the rows of event JOIN location WHERE within_radius, with their scores
matched_events(v, max_distance, distance_unit) ==
    {[id |-> e, total_score |-> event_total_score(e, v, max_distance, distance_unit)] :
        e \in {f \in events :
                 within_radius(volunteer_location[v][1], event_row[f].location[1],
                               max_distance, distance_unit)}}

\* the lookup without the check of the volunteer's location
match_events_get_unchecked(s, volunteer_id, max_distance, distance_unit) ==
    /\ sess[s].pc = "idle"
    /\ IF volunteer_id \notin Volunteers
       THEN Return(s, MatchEventsOp, volunteer_id, 0, "NotFoundError")
       ELSE /\ sess' = [sess EXCEPT ![s] = [Idle EXCEPT !.pc = "match_events_query",
                            !.volunteer_id = volunteer_id,
                            !.args = <<max_distance, distance_unit>>]]
            /\ response' = NoResponse
    /\ UNCHANGED <<db, trail>>

\* db.get(Volunteer, volunteer_id) and the check of its location
match_events_get(s, volunteer_id, max_distance, distance_unit) ==
    /\ sess[s].pc = "idle"
    /\ IF volunteer_id \notin Volunteers
       THEN Return(s, MatchEventsOp, volunteer_id, 0, "NotFoundError")
       ELSE IF volunteer_location[volunteer_id] = <<>>
       THEN Return(s, MatchEventsOp, volunteer_id, 0, "ValidationError")
       ELSE /\ sess' = [sess EXCEPT ![s] = [Idle EXCEPT !.pc = "match_events_query",
                            !.volunteer_id = volunteer_id,
                            !.args = <<max_distance, distance_unit>>]]
            /\ response' = NoResponse
    /\ UNCHANGED <<db, trail>>

\* the volunteer's skills are loaded and the query runs
match_events_query(s) ==
    /\ sess[s].pc = "match_events_query"
    /\ LET v == sess[s].volunteer_id
           rows == matched_events(v, sess[s].args[1], sess[s].args[2])
       IN IF \E r \in rows : r.total_score[2] = 0
          THEN /\ Return(s, MatchEventsOp, v, 0, "DataError")
               /\ UNCHANGED trail
          ELSE \E q \in order_by_desc(rows) :
                   /\ ReturnRows(s, MatchEventsOp, v, 0, sess[s].args, q)
                   /\ Matched(s, MatchEventsOp, v, sess[s].args, q)
    /\ UNCHANGED db

\* ------------------------------------------------------------ specification
\* the event the enrollment runs create
TheEvent(cap) == EventCreate(cap, {"Cooking", " Cooking "}, 4, 0, 1, Some(1))

\* an update of the capacity alone, and one of every other field too
NoOtherUpdates(cap) == EventUpdate(<<>>, <<>>, <<>>, <<>>, <<>>, cap, <<>>, <<>>, <<>>)

\* the concurrent requests: signups, withdraws, capacity updates and match
\* calls, in every interleaving of their statements
Next ==
    \E s \in Sessions :
        \/ \E cap \in 1..MaxCapacity, a \in AdminIds :
               create_org_event(s, TheEvent(cap), AdminKind(a, 1))
        \/ \E v \in VolunteerIds, e \in EventIds : signup_get_volunteer(s, v, e)
        \/ signup_get_event(s)
        \/ signup_check(s)
        \/ signup_commit(s)
        \/ \E v \in VolunteerIds, e \in EventIds : remove_get_event_volunteer(s, v, e)
        \/ remove_load_event(s)
        \/ remove_commit(s)
        \/ \E e \in EventIds : update_get_event(s, e)
        \/ \E a \in AdminIds, cap \in CapacityUpdates :
               update_helper(s, AdminKind(a, 1), NoOtherUpdates(cap), <<>>)
        \/ update_commit(s)
        \/ \E e \in EventIds, a \in AdminIds :
               match_volunteers_get(s, e, a, MaxDistance, "km")
        \/ match_volunteers_query(s)
        \/ \E v \in VolunteerIds : match_events_get(s, v, MaxDistance, "km")
        \/ match_events_query(s)

Spec == Init /\ [][Next]_vars

\* ------------------------------------------------- requests one at a time
\* the requests of the admin pages, each run to its end before the next one
\* starts, as the tests run them: every kind of request, with updates that
\* carry any of the fields
Serial == {1}

AllOtherUpdates(cap) ==
    EventUpdate(Some("Food drive"), Some("Hand out food"), Some(2),
                Some({"Cleaning", " Cooking "}), Some("High"), cap,
                Some(5), Some(1), Some(0))

EventUpdates ==
    UNION {{NoOtherUpdates(cap), AllOtherUpdates(cap)} : cap \in CapacityUpdates}

ImageUrls == {<<>>, Some("s3://events/1.png")}

SerialNext ==
    \E s \in Serial :
        \/ \E cap \in 1..MaxCapacity, a \in AdminIds, o \in OrganizationIds,
              location \in {<<>>, Some(1)} :
               create_org_event(s,
                   EventCreate(cap, {"Cooking", " Cooking "}, 4, 0, 1, location),
                   AdminKind(a, o))
        \/ \E v \in VolunteerIds, e \in EventIds : signup_get_volunteer(s, v, e)
        \/ signup_get_event(s)
        \/ signup_check(s)
        \/ signup_commit(s)
        \/ \E v \in VolunteerIds, e \in EventIds : remove_get_event_volunteer(s, v, e)
        \/ remove_load_event(s)
        \/ remove_commit(s)
        \/ \E e \in EventIds : update_get_event(s, e)
        \/ \E a \in AdminIds, u \in EventUpdates, image_url \in ImageUrls :
               update_helper(s, AdminKind(a, 1), u, image_url)
        \/ update_commit(s)
        \/ \E o \in OrganizationIds, a \in AdminIds : signup_org_admin(s, o, a)
        \/ \E e \in EventIds, a \in AdminIds :
               match_volunteers_get(s, e, a, MaxDistance, "km")
        \/ match_volunteers_query(s)
        \/ \E v \in VolunteerIds : match_events_get(s, v, MaxDistance, "km")
        \/ match_events_query(s)

SerialSpec == Init /\ [][SerialNext]_vars

\* ------------------------------------------------------------ event windows
\* creations with any window and updates that carry a window or none
WindowNext ==
    \E s \in Serial :
        \/ \E cap \in 1..MaxCapacity, start_time \in Times, end_time \in Times,
              a \in AdminIds :
               create_org_event(s,
                   EventCreate(cap, {"Cooking"}, 4, start_time, end_time, Some(1)),
                   AdminKind(a, 1))
        \/ \E e \in EventIds : update_get_event(s, e)
        \/ \E a \in AdminIds, u \in EventUpdates, image_url \in ImageUrls :
               update_helper(s, AdminKind(a, 1), u, image_url)
        \/ update_commit(s)

WindowSpec == Init /\ [][WindowNext]_vars

\* ------------------------------------------------------------- match calls
\* the profiles the match calls rank: every volunteer with or without a
\* location, with both of the needed skills or none and with or without a
\* slot on Thursday that ends when the events start; every event stored, on
\* Thursday, the first at one end of the line and the others at the other
\* end, needing two skills
MatchSkills == {{}, {"Cooking", "Cleaning"}}

MatchSchedules == {{}, {[day_of_week |-> 4, start_time |-> 1, end_time |-> 2]}}

MatchEvent(p) ==
    [name |-> "Cleanup", description |-> "Clean the park", urgency |-> "Low",
     image_url |-> None, day |-> 4, start_time |-> 2, end_time |-> 3,
     location |-> Some(p)]

MatchInit ==
    /\ events = EventKeys
    /\ capacity = [e \in EventKeys |-> MaxCapacity]
    /\ assigned = [e \in EventKeys |-> 0]
    /\ event_volunteer = [p \in EventKeys \X Volunteers |-> 0]
    /\ organization_admin = InitialAdmins
    /\ event_row = [e \in EventKeys |-> MatchEvent(IF e = 1 THEN 0 ELSE MaxPoint)]
    /\ event_skill = [e \in EventKeys |-> {"Cooking", "Cleaning"}]
    /\ volunteer_location \in [Volunteers -> Optional(Points)]
    /\ volunteer_skill \in [Volunteers -> MatchSkills]
    /\ volunteer_weekly_schedule \in [Volunteers -> MatchSchedules]
    /\ sess = [s \in Sessions |-> Idle]
    /\ response = NoResponse
    /\ trail = NoTrail

MatchNext ==
    \E s \in Serial :
        \/ \E e \in EventKeys, a \in {1, NumAdmins + 1}, d \in Distances, u \in DistanceUnits :
               match_volunteers_get(s, e, a, d, u)
        \/ match_volunteers_query(s)
        \/ \E v \in VolunteerIds, d \in Distances, u \in DistanceUnits :
               match_events_get(s, v, d, u)
        \/ match_events_query(s)

MatchSpec == MatchInit /\ [][MatchNext]_vars

\* -------------------------------------------------------- scoring functions
\* the scoring functions applied to inputs of their own
MaxWeight == 4

Weights == 0..MaxWeight

\* no slot, one slot, or two slots on a Thursday
SlotSets ==
    {{}} \cup {{t} : t \in AvailableTimes}
         \cup {{t, u} : t, u \in {x \in AvailableTimes : x.day_of_week = 4}}

\* a call of a scoring function that is about to be made
Call(op, args) == [Idle EXCEPT !.pc = op, !.args = args]

SkillsCalls ==
    {Call("skills_match_score", <<entity_skills, target_skills, max_weight>>) :
        entity_skills \in SUBSET Skills, target_skills \in SUBSET Skills,
        max_weight \in Weights}

ScheduleCalls(op, weights) ==
    {Call(op, <<times_available, w[1], w[2], w[3], max_weight>>) :
        times_available \in SlotSets,
        w \in {x \in Days \X Times \X Times : x[2] <= x[3]},
        max_weight \in weights}

DistanceCalls ==
    {Call("distance_based_location_score",
          <<metres, distance_unit, max_distance, max_weight>>) :
        metres \in Points, distance_unit \in DistanceUnits,
        max_distance \in Distances, max_weight \in Weights}

ScoreCalls ==
    SkillsCalls \cup ScheduleCalls("schedule_overlap_score", {0, SCHEDULE_MAX})
                \cup ScheduleCalls("schedules_overlap", {SCHEDULE_MAX})
                \cup DistanceCalls

ScoreInit ==
    /\ events = {}
    /\ capacity = [e \in EventKeys |-> 0]
    /\ assigned = [e \in EventKeys |-> 0]
    /\ event_volunteer = [p \in EventKeys \X Volunteers |-> 0]
    /\ organization_admin = InitialAdmins
    /\ event_row = [e \in EventKeys |-> NoEventRow]
    /\ event_skill = [e \in EventKeys |-> {}]
    /\ volunteer_location = InitialLocations
    /\ volunteer_skill = InitialSkills
    /\ volunteer_weekly_schedule = InitialSchedules
    /\ \E call \in ScoreCalls : sess = [s \in Sessions |-> IF s = 1 THEN call ELSE Idle]
    /\ response = NoResponse
    /\ trail = NoTrail

Scored(s, score) ==
    /\ response' = [NoResponse EXCEPT !.session = s, !.op = sess[s].pc,
                                      !.result = "ok",
                                      !.status_code = status_code("ok"),
                                      !.args = sess[s].args, !.value = <<score>>]
    /\ sess' = [sess EXCEPT ![s] = Idle]
    /\ UNCHANGED <<db, trail>>

skills_match_score_call(s) ==
    /\ sess[s].pc = "skills_match_score"
    /\ LET a == sess[s].args
       IN  Scored(s, skills_match_score(a[1], a[2], a[3]))

schedule_overlap_score_call(s) ==
    /\ sess[s].pc = "schedule_overlap_score"
    /\ LET a == sess[s].args
       IN  Scored(s, schedule_overlap_score(a[1], a[2], a[3], a[4], a[5]))

\* the test match_events_to_volunteer writes inline, weighted as it weights it
schedules_overlap_call(s) ==
    /\ sess[s].pc = "schedules_overlap"
    /\ LET a == sess[s].args
       IN  Scored(s, IF schedules_overlap(a[1], [day |-> a[2], start_time |-> a[3],
                                                 end_time |-> a[4]])
                     THEN a[5] ELSE 0)

\* the expression fails in the database when it divides by zero
distance_based_location_score_call(s) ==
    /\ sess[s].pc = "distance_based_location_score"
    /\ LET a == sess[s].args
           score == distance_based_location_score(distance_expr(a[1], a[2]),
                                                  a[3], a[4])
       IN  IF score[2] = 0
           THEN /\ ReturnArgs(s, sess[s].pc, 0, 0, "DataError", a)
                /\ UNCHANGED <<db, trail>>
           ELSE Scored(s, score)

ScoreNext ==
    \E s \in Serial :
        \/ skills_match_score_call(s)
        \/ schedule_overlap_score_call(s)
        \/ schedules_overlap_call(s)
        \/ distance_based_location_score_call(s)

ScoreSpec == ScoreInit /\ [][ScoreNext]_vars

\* ------------------------------------------- requests on different events
\* every event is stored, with any capacity and nobody enrolled
DisjointInit ==
    /\ events = EventKeys
    /\ capacity \in [EventKeys -> 1..MaxCapacity]
    /\ assigned = [e \in EventKeys |-> 0]
    /\ event_volunteer = [p \in EventKeys \X Volunteers |-> 0]
    /\ organization_admin = InitialAdmins
    /\ event_row = [e \in EventKeys |-> MatchEvent(0)]
    /\ event_skill = [e \in EventKeys |-> {}]
    /\ volunteer_location = InitialLocations
    /\ volunteer_skill = InitialSkills
    /\ volunteer_weekly_schedule = InitialSchedules
    /\ sess = [s \in Sessions |-> Idle]
    /\ response = NoResponse
    /\ trail = NoTrail

\* the event the requests of a session are about: no two sessions share one
EventOf(s) == s

\* signups and withdrawals of any volunteer, concurrent, each session on an
\* event of its own
DisjointNext ==
    \E s \in Sessions :
        \/ \E v \in VolunteerIds : signup_get_volunteer(s, v, EventOf(s))
        \/ signup_get_event(s)
        \/ signup_check(s)
        \/ signup_commit(s)
        \/ \E v \in VolunteerIds : remove_get_event_volunteer(s, v, EventOf(s))
        \/ remove_load_event(s)
        \/ remove_commit(s)

DisjointSpec == DisjointInit /\ [][DisjointNext]_vars

\* ------------------------------------------------- GET /vol/{volunteer_id}/match
\* the tokens get_current_user hands to the route: the id of a volunteer or
\* of an admin with either user type
UserTokenInfo == [user_id : VolunteerIds \cup AdminIds, user_type : {"admin", "volunteer"}]

is_admin(user_info) == user_info.user_type = "admin"

\* the route authorizes, then calls match_events_to_volunteer with its
\* default radius
volunteer_event_matches(s, volunteer_id, user) ==
    IF user.user_id # volunteer_id \/ ~is_admin(user)
    THEN /\ sess[s].pc = "idle"
         /\ ReturnArgs(s, "volunteer_event_matches", volunteer_id, 0,
                       "AuthorizationError", <<user>>)
         /\ UNCHANGED <<db, trail>>
    ELSE match_events_get(s, volunteer_id, MaxDistance, "mile")

RouteNext ==
    \E s \in Serial :
        \/ \E v \in VolunteerIds, user \in UserTokenInfo :
               volunteer_event_matches(s, v, user)
        \/ match_events_query(s)

RouteSpec == MatchInit /\ [][RouteNext]_vars

\* ---------------------------------------------------------- create_volunteer
\* the bodies of POST /vol/signup, as far as the availability goes: lists of
\* at most MaxSlots slots on two days, with any start and end
MaxSlots == 3

SlotInputs == [day : {1, 2}, start : Times, end : Times]

RECURSIVE Lists(_, _)
Lists(S, n) ==
    IF n = 0 THEN {<<>>}
    ELSE Lists(S, n - 1) \cup {Append(q, x) : q \in Lists(S, n - 1), x \in S}

\* AvailableTime.validate_time_order
validate_time_order(slot) == slot.start < slot.end

\* list.sort(key=start): x goes behind the elements that do not start later
RECURSIVE insert_by_start(_, _)
insert_by_start(sorted, x) ==
    IF sorted = <<>> THEN <<x>>
    ELSE IF sorted[Len(sorted)].start <= x.start THEN Append(sorted, x)
    ELSE Append(insert_by_start(SubSeq(sorted, 1, Len(sorted) - 1), x),
                sorted[Len(sorted)])

RECURSIVE sort_by_start(_)
sort_by_start(slots) ==
    IF slots = <<>> THEN <<>>
    ELSE insert_by_start(sort_by_start(SubSeq(slots, 1, Len(slots) - 1)),
                         slots[Len(slots)])

\* by_day[day]: the slots of one day, in the order of the list
by_day(available_times, day) ==
    SelectSeq(available_times, LAMBDA slot : slot.day = day)

\* the validator that lets a slot start when the one before it ends
validate_non_overlapping_touching(available_times) ==
    \A day \in DayOfWeek :
        LET slots == sort_by_start(by_day(available_times, day))
        IN \A i \in 2..Len(slots) : ~(slots[i].start < slots[i - 1].end)

\* VolunteerCreate.validate_non_overlapping: per day, the slots sorted by
\* start, each compared with the one before it
validate_non_overlapping(available_times) ==
    \A day \in DayOfWeek :
        LET slots == sort_by_start(by_day(available_times, day))
        IN \A i \in 2..Len(slots) : ~(slots[i].start <= slots[i - 1].end)

\* the model validates each AvailableTime, then the whole list
VolunteerCreate(available_times) ==
    /\ \A i \in 1..Len(available_times) : validate_time_order(available_times[i])
    /\ validate_non_overlapping(available_times)

\* the volunteer_weekly_schedule rows create_volunteer appends
new_times_available(available_times) ==
    {[day_of_week |-> available_times[i].day,
      start_time |-> available_times[i].start,
      end_time |-> available_times[i].end] : i \in 1..Len(available_times)}

\* no volunteer is registered yet and a signup is about to be handled
VolunteerInit ==
    /\ events = {}
    /\ capacity = [e \in EventKeys |-> 0]
    /\ assigned = [e \in EventKeys |-> 0]
    /\ event_volunteer = [p \in EventKeys \X Volunteers |-> 0]
    /\ organization_admin = InitialAdmins
    /\ event_row = [e \in EventKeys |-> NoEventRow]
    /\ event_skill = [e \in EventKeys |-> {}]
    /\ volunteer_location = [v \in Volunteers |-> <<>>]
    /\ volunteer_skill = [v \in Volunteers |-> {}]
    /\ volunteer_weekly_schedule = [v \in Volunteers |-> {}]
    /\ \E available_times \in Lists(SlotInputs, MaxSlots) :
           sess = [s \in Sessions |->
                      IF s = 1 THEN Call("create_volunteer", <<available_times>>)
                      ELSE Idle]
    /\ response = NoResponse
    /\ trail = NoTrail

\* the request body is validated, then create_volunteer stores the volunteer,
\* who gets the first id, with the slots of the body
create_volunteer(s) ==
    /\ sess[s].pc = "create_volunteer"
    /\ LET available_times == sess[s].args[1]
       IN IF VolunteerCreate(available_times)
          THEN /\ volunteer_weekly_schedule' =
                      [volunteer_weekly_schedule EXCEPT ![1] =
                          new_times_available(available_times)]
               /\ ReturnArgs(s, "create_volunteer", 1, 0, "ok", sess[s].args)
          ELSE /\ ReturnArgs(s, "create_volunteer", 0, 0, "ValidationError",
                             sess[s].args)
               /\ UNCHANGED volunteer_weekly_schedule
    /\ UNCHANGED <<events, capacity, assigned, event_volunteer, event_row,
                   event_skill, organization_admin, volunteer_location,
                   volunteer_skill, trail>>

VolunteerNext == \E s \in Serial : create_volunteer(s)

VolunteerSpec == VolunteerInit /\ [][VolunteerNext]_vars

TypeOK ==
    /\ events \subseteq EventKeys
    /\ \A e \in EventKeys : capacity[e] \in Int /\ assigned[e] \in Int
    /\ response.result \in Results \cup {None}

\* ------------------------------------------------------------------ claims
SignupOp == "signup_volunteer_event"

RemoveOp == "remove_volunteer_event"

UpdateOp == "update_org_event"

\* C1: in every reachable state, under any interleaving of signup, withdraw
\* and update requests, every event has 0 <= assigned <= capacity.
C1_AssignedWithinCapacity ==
    \A e \in events : 0 <= assigned[e] /\ assigned[e] <= capacity[e]

\* the case of C1: an update that lowered the capacity below what a concurrent
\* signup committed was turned down by the table
C1_Witness ==
    /\ response.op = UpdateOp
    /\ response.result = "DatabaseOperationError"
    /\ response.event_id \in events
    /\ assigned[response.event_id] = capacity[response.event_id]
    /\ assigned[response.event_id] > 0

\* C2: event with capacity 1 and assigned 0, two concurrent signups of two
\* different volunteers that both read assigned before either commits: once
\* one of them has committed (assigned = 1, one row), the other one fails with
\* the capacity ValidationError and the event keeps assigned = 1 and one row.
C2_ScenarioD ==
    [][\A s \in Sessions :
          LET e == sess[s].event_id
              v == sess[s].volunteer_id
          IN (/\ sess[s].pc = "signup_commit"
              /\ sess[s].found_assigned = 0
              /\ capacity[e] = 1
              /\ assigned[e] = 1
              /\ Enrolled(e) = 1
              /\ event_volunteer[<<e, v>>] = 0
              /\ sess'[s].pc = "idle")
             => /\ response'.result = "ValidationError"
                /\ assigned'[e] = 1
                /\ Enrolled(e)' = 1]_vars

\* C3: a successful signup adds the row (e, v) and raises the committed
\* assigned of e by exactly 1, and a signup whose commit fails leaves both as
\* they were.
C3_SignupAtomic ==
    [][response'.op = SignupOp =>
          LET e == response'.event_id
              v == response'.volunteer_id
          IN /\ response'.result = "ok" =>
                  /\ event_volunteer'[<<e, v>>] = event_volunteer[<<e, v>>] + 1
                  /\ assigned'[e] = assigned[e] + 1
             /\ response'.result # "ok" => db' = db]_vars

\* C4: in every reachable state the assigned counter of every event equals
\* the number of its event_volunteer rows.
C4_AssignedCountsRows ==
    \A e \in events : assigned[e] = Enrolled(e)

\* session s takes the step
Steps(s) == sess'[s] # sess[s]

LastEntry == trail.log[Len(trail.log)]

\* the response a signup or withdraw of (v, e) gives when it ends with r
Raised(op, v, e, r) ==
    [op |-> op, volunteer_id |-> v, event_id |-> e, result |-> r,
     status_code |-> status_code(r), args |-> <<>>, value |-> <<>>]

\* C5: a signup of an existing, not yet enrolled volunteer whose check finds
\* assigned >= capacity fails with ValidationError (422), creates no row and
\* leaves assigned unchanged; a signup gets past its check, and so can
\* succeed, only if assigned < capacity held there.
C5_FullEventRejects ==
    /\ [][\A s \in Sessions :
             LET e == sess[s].event_id
                 v == sess[s].volunteer_id
             IN /\ (/\ sess[s].pc = "signup_check"
                    /\ Steps(s)
                    /\ event_volunteer[<<e, v>>] = 0
                    /\ sess[s].found_assigned >= sess[s].found_capacity)
                   => /\ response' = Raised(SignupOp, v, e, "ValidationError")
                      /\ response'.status_code = 422
                      /\ db' = db
                /\ (sess[s].pc = "signup_check" /\ sess'[s].pc = "signup_commit")
                   => sess[s].found_assigned < sess[s].found_capacity
                /\ (Steps(s) /\ response'.op = SignupOp /\ response'.result = "ok")
                   => sess[s].pc = "signup_commit"]_vars
    /\ [](\/ trail.log = <<>>
          \/ LET l == LastEntry
             IN (/\ l.op = SignupOp
                 /\ l.volunteer_id \in Volunteers
                 /\ l.event_id \in events
                 /\ ~l.had_row
                 /\ l.before >= capacity[l.event_id])
                => /\ l.result = "ValidationError"
                   /\ assigned[l.event_id] = l.before
                   /\ get_event_volunteer(l.volunteer_id, l.event_id) = None)

\* the case of C5: a signup was turned down at a full event with room for
\* nobody else
C5_Witness ==
    /\ response.op = SignupOp
    /\ response.result = "ValidationError"
    /\ response.status_code = 422
    /\ response.event_id \in events
    /\ capacity[response.event_id] > 0
    /\ assigned[response.event_id] = capacity[response.event_id]
    /\ get_event_volunteer(response.volunteer_id, response.event_id) = None

\* C6: a signup for a pair that is already enrolled fails with ConflictError
\* (409) and leaves assigned and the rows unchanged, also when the event is
\* full; in particular the second of two signups of the same pair in a row.
C6_DuplicateSignupConflicts ==
    /\ [][\A s \in Sessions :
             LET e == sess[s].event_id
                 v == sess[s].volunteer_id
             IN (/\ sess[s].pc = "signup_check"
                 /\ Steps(s)
                 /\ event_volunteer[<<e, v>>] > 0)
                => /\ response' = Raised(SignupOp, v, e, "ConflictError")
                   /\ response'.status_code = 409
                   /\ db' = db]_vars
    /\ [](\/ trail.log = <<>>
          \/ LET l == LastEntry
             IN (l.op = SignupOp /\ l.had_row)
                => /\ l.result = "ConflictError"
                   /\ assigned[l.event_id] = l.before
                   /\ get_event_volunteer(l.volunteer_id, l.event_id) # None)

\* the case of C6: the second of two signups of one pair, run one after the
\* other, was turned down with Conflict while the event was full
C6_Witness ==
    /\ Len(trail.log) = 2
    /\ trail.log[1].op = SignupOp
    /\ trail.log[1].result = "ok"
    /\ trail.log[2].op = SignupOp
    /\ trail.log[2].volunteer_id = trail.log[1].volunteer_id
    /\ trail.log[2].event_id = trail.log[1].event_id
    /\ trail.log[2].result = "ConflictError"
    /\ response.result = "ConflictError"
    /\ assigned[response.event_id] >= capacity[response.event_id]

\* C7: a successful withdraw of (v, e) deletes exactly the row (e, v) and
\* lowers the committed assigned of e by exactly 1, never below 0; afterwards
\* the pair has no row.
C7_RemoveEffect ==
    [][(response'.op = RemoveOp /\ response'.result = "ok") =>
          LET e == response'.event_id
              v == response'.volunteer_id
          IN /\ event_volunteer[<<e, v>>] = 1
             /\ event_volunteer' = [event_volunteer EXCEPT ![<<e, v>>] = 0]
             /\ assigned'[e] = assigned[e] - 1
             /\ assigned'[e] >= 0
             /\ event_volunteer'[<<e, v>>] = 0]_vars

\* C8: a withdraw for a pair without a row fails with NotFoundError (404) and
\* changes nothing; a withdraw goes on only for a pair with a row; in
\* particular a second withdraw right after a successful one fails this way.
C8_RemoveOfNonMember ==
    /\ [][\A s \in Sessions :
             /\ (response'.op = RemoveOp /\ response'.result = "NotFoundError")
                => /\ get_event_volunteer(response'.volunteer_id,
                                          response'.event_id) = None
                   /\ response'.status_code = 404
                   /\ db' = db
             /\ (sess[s].pc = "idle" /\ sess'[s].pc = "remove_load_event")
                => /\ get_event_volunteer(sess'[s].volunteer_id,
                                          sess'[s].event_id) # None
                   /\ db' = db]_vars
    /\ [](\/ trail.log = <<>>
          \/ LET l == LastEntry
             IN (l.op = RemoveOp /\ ~l.had_row)
                => /\ l.result = "NotFoundError"
                   /\ assigned[l.event_id] = l.before)
    /\ []((/\ Len(trail.log) = 2
              /\ trail.log[1].op = RemoveOp
              /\ trail.log[1].result = "ok"
              /\ trail.log[2].op = RemoveOp
              /\ trail.log[2].volunteer_id = trail.log[1].volunteer_id
              /\ trail.log[2].event_id = trail.log[1].event_id)
             => /\ trail.log[2].result = "NotFoundError"
                /\ assigned[trail.log[2].event_id] = trail.log[2].before)

\* the case of C8: a second withdraw right after a successful one
C8_Witness ==
    /\ Len(trail.log) = 2
    /\ trail.log[1].op = RemoveOp
    /\ trail.log[1].result = "ok"
    /\ trail.log[2].op = RemoveOp
    /\ trail.log[2].volunteer_id = trail.log[1].volunteer_id
    /\ trail.log[2].event_id = trail.log[1].event_id
    /\ response = Raised(RemoveOp, trail.log[2].volunteer_id,
                         trail.log[2].event_id, "NotFoundError")

C10_WithdrawThenSignup ==
    /\ Len(trail.log) >= 1 =>
          LET l == LastEntry
          IN (l.op = RemoveOp /\ l.had_row)
             => /\ l.result = "ok"
                /\ assigned[l.event_id] = l.before - 1
    /\ Len(trail.log) = 2 =>
          LET f == trail.log[1]
              l == trail.log[2]
          IN /\ (/\ f.op = RemoveOp /\ f.had_row
                 /\ l.op = SignupOp
                 /\ l.volunteer_id = f.volunteer_id /\ l.event_id = f.event_id)
                => /\ f.result = "ok" /\ l.result = "ok"
                   /\ get_event_volunteer(l.volunteer_id, l.event_id) # None
                   /\ assigned[l.event_id] = f.before
             /\ (/\ f.op = SignupOp /\ f.result = "ok"
                 /\ l.op = RemoveOp
                 /\ l.volunteer_id = f.volunteer_id /\ l.event_id = f.event_id)
                => /\ l.result = "ok"
                   /\ get_event_volunteer(l.volunteer_id, l.event_id) = None
                   /\ assigned[l.event_id] = f.before

\* C11: a signup with a volunteer id that has no row, or with an existing
\* volunteer and an event id that has no row, fails with NotFoundError (404),
\* creates no event_volunteer row and changes no event's assigned; a signup
\* goes past its two lookups only with a volunteer and an event that exist.
C11_SignupNotFound ==
    [][\A s \in Sessions :
          /\ (response'.op = SignupOp /\ response'.volunteer_id \notin Volunteers)
             => /\ response'.result = "NotFoundError"
                /\ response'.status_code = 404
                /\ db' = db
          /\ (/\ sess[s].pc = "signup_get_event"
              /\ Steps(s)
              /\ sess[s].event_id \notin events)
             => /\ response' = Raised(SignupOp, sess[s].volunteer_id,
                                      sess[s].event_id, "NotFoundError")
                /\ db' = db
          /\ sess'[s].pc = "signup_get_event" => sess'[s].volunteer_id \in Volunteers
          /\ sess'[s].pc \in {"signup_check", "signup_commit"}
             => /\ sess'[s].volunteer_id \in Volunteers
                /\ sess'[s].event_id \in events]_vars

\* the case of C11: a signup of an unknown volunteer was turned down at an
\* event that has volunteers
C11_Witness ==
    /\ response.op = SignupOp
    /\ response.result = "NotFoundError"
    /\ response.volunteer_id \notin Volunteers
    /\ response.event_id \in events
    /\ assigned[response.event_id] > 0
    /\ Enrolled(response.event_id) > 0

\* C12: only signup_volunteer_event and remove_volunteer_event change the
\* assigned counter of an event: a step that changes it is the commit of one
\* of the two on that event; create_org_event stores the new event with
\* assigned = 0; every step of update_org_event (whatever fields it carries),
\* signup_org_admin, match_volunteers_to_event and match_events_to_volunteer
\* leaves assigned of every existing event as it was.
C12_OnlySignupAndRemoveChangeAssigned ==
    [][/\ \A e \in events' \ events : assigned'[e] = 0
       /\ \A e \in events :
              assigned'[e] # assigned[e] =>
                  /\ response'.op \in {SignupOp, RemoveOp}
                  /\ response'.result = "ok"
                  /\ response'.event_id = e
       /\ \A s \in Sessions :
              (/\ Steps(s)
               /\ \/ sess[s].pc \in {"update_helper", "update_commit",
                                     "match_volunteers_query", "match_events_query"}
                  \/ response'.op \in {UpdateOp, "create_org_event", "signup_org_admin",
                                       MatchVolunteersOp, MatchEventsOp})
              => \A e \in events : assigned'[e] = assigned[e]]_vars

\* the case of C12: an update that carried a new name and a new capacity was
\* committed for an event that has volunteers signed up
C12_Witness ==
    /\ response.op = UpdateOp
    /\ response.result = "ok"
    /\ response.event_id \in events
    /\ assigned[response.event_id] > 0
    /\ capacity[response.event_id] > assigned[response.event_id]
    /\ event_row[response.event_id].name = "Food drive"

MatchOps == {MatchVolunteersOp, MatchEventsOp}

\* a step of a match call of session s
MatchStep(s) ==
    /\ Steps(s)
    /\ \/ sess[s].pc \in {"match_volunteers_query", "match_events_query"}
       \/ sess'[s].pc \in {"match_volunteers_query", "match_events_query"}
       \/ response'.op \in MatchOps

\* C14: the match calls are read-only and hold nothing: every step of a match
\* call, whether it returns rows or raises, leaves every table (volunteers,
\* events, assigned, EventVolunteer rows) and every other session's request
\* exactly as it was, so the signup and withdraw requests it is interleaved
\* with read and write what they would have without it.
C14_MatchReadOnly ==
    [][\A s \in Sessions :
         MatchStep(s) =>
             /\ UNCHANGED db
             /\ \A t \in Sessions \ {s} : sess'[t] = sess[t]
             /\ trail'.log = trail.log /\ trail'.solo = trail.solo]_vars

\* the case of C14: a match call returned a volunteer while a signup to the
\* same event had read the event and had not committed yet
C14_Witness ==
    /\ response.op = MatchVolunteersOp
    /\ response.result = "ok"
    /\ response.value # <<>>
    /\ \E t \in Sessions :
           /\ sess[t].pc = "signup_commit"
           /\ sess[t].event_id = response.event_id

\* the rows a match call returned in the last step
Returned(op) ==
    /\ response.op = op
    /\ response.result = "ok"

\* C15: the list a match call returns is ordered by total score, descending:
\* of every two adjacent entries the earlier one's score is at least the
\* later one's (the scores of one call are fractions of one denominator).
C15_OrderedByScore ==
    \A op \in MatchOps :
        Returned(op) =>
            \A i \in 1..(Len(response.value) - 1) :
                /\ response.value[i].total_score[2] = response.value[i + 1].total_score[2]
                /\ response.value[i].total_score[2] > 0
                /\ response.value[i].total_score[1] >= response.value[i + 1].total_score[1]

\* the case of C15: a call returned two volunteers of different scores, the
\* one with the smaller id second
C15_Witness ==
    /\ Returned(MatchVolunteersOp)
    /\ Len(response.value) = 2
    /\ response.value[1].total_score[1] > response.value[2].total_score[1]
    /\ response.value[1].id > response.value[2].id

\* a distance in metres is within max_distance thousandths of the unit (a
\* mile is 1609.344 m)
WithinMaxDistance(metres, max_distance, distance_unit) ==
    IF distance_unit = "mile" THEN metres * 1000000 <= max_distance * 1609344
    ELSE metres <= max_distance

Ids(rows) == {rows[i].id : i \in 1..Len(rows)}

C17_Deterministic ==
    [][\A s \in Sessions :
         (/\ sess[s].pc = "match_volunteers_query"
          /\ Steps(s)
          /\ response'.result = "ok"
          /\ trail.matched # <<>>
          /\ trail.matched[1].op = MatchVolunteersOp
          /\ trail.matched[1].id = sess[s].event_id
          /\ trail.matched[1].args = sess[s].args)
         => response'.value = trail.matched[1].value]_vars

\* a scoring function returned in the last step
Computed(op) ==
    /\ response.op = op
    /\ response.result = "ok"

Min(a, b) == IF a <= b THEN a ELSE b

\* C18: the skill score equals min(|candidate_skills \cap target_skills|,
\* max_weight); it is 0 when either side has no skills, and the skills the
\* candidate has beyond the target's do not raise it.
C18_SkillScore ==
    Computed("skills_match_score") =>
        LET entity_skills == response.args[1]
            target_skills == response.args[2]
            max_weight == response.args[3]
        IN /\ response.value[1] =
                  Min(Cardinality(entity_skills \cap target_skills), max_weight)
           /\ (entity_skills = {} \/ target_skills = {}) => response.value[1] = 0
           /\ response.value[1] =
                  skills_match_score(entity_skills \cap target_skills, target_skills,
                                     max_weight)

\* the case of C18: a candidate with three skills, two of them among the
\* target's, scored under a weight that does not cap the count
C18_Witness ==
    /\ Computed("skills_match_score")
    /\ Cardinality(response.args[1]) = 3
    /\ Cardinality(response.args[1] \cap response.args[2]) = 2
    /\ response.args[3] > 2
    /\ response.value = <<2>>

\* the test of C19: a slot on the ISO weekday of the event's date that meets
\* the closed window of the event
SlotMeetsEvent(times_available, day, start_time, end_time) ==
    \E t \in times_available :
        /\ t.day_of_week \in 1..7
        /\ (day - t.day_of_week) % 7 = 0
        /\ t.start_time <= end_time
        /\ t.end_time >= start_time

C20_DistanceScore ==
    (Computed("distance_based_location_score") /\ response.args[3] > 0) =>
        LET metres == response.args[1]
            distance_unit == response.args[2]
            max_distance == response.args[3]
            max_weight == response.args[4]
            n == distance_expr(metres, distance_unit)[1]
            d == distance_expr(metres, distance_unit)[2]
            score == response.value[1]
        IN /\ score[2] = max_distance * d
           /\ max_distance * d - n <= 0 => score[1] = 0
           /\ max_distance * d - n >= max_distance * d
                  => score[1] = max_weight * score[2]
           /\ (0 < max_distance * d - n /\ max_distance * d - n < max_distance * d)
                  => score[1] = (max_distance * d - n) * max_weight
           /\ metres = 0 => score[1] = max_weight * score[2]
           /\ n >= max_distance * d => score[1] = 0
           /\ \A farther \in Points :
                  farther > metres =>
                      distance_based_location_score(
                          distance_expr(farther, distance_unit),
                          max_distance, max_weight)[1] <= score[1]

\* the case of C20: a distance in miles strictly inside the radius got a score
\* strictly between 0 and max_weight
C20_Witness ==
    /\ Computed("distance_based_location_score")
    /\ response.args[1] > 0
    /\ response.args[2] = "mile"
    /\ response.args[3] > 0
    /\ response.args[4] = LOCATION_MAX
    /\ response.value[1][1] > 0
    /\ response.value[1][1] < LOCATION_MAX * response.value[1][2]

\* C21: for all inputs the skill score is in 0..max_weight, the schedule
\* score is 0 or max_weight, and the distance score is a value in
\* [0, max_weight].
C21_ScoreBounds ==
    /\ response.op = "skills_match_score" =>
           /\ response.result = "ok"
           /\ 0 <= response.value[1] /\ response.value[1] <= response.args[3]
    /\ response.op \in {"schedule_overlap_score", "schedules_overlap"} =>
           /\ response.result = "ok"
           /\ response.value[1] \in {0, response.args[5]}
    /\ response.op = "distance_based_location_score" =>
           /\ response.result = "ok"
           /\ response.value[1][2] > 0
           /\ 0 <= response.value[1][1]
           /\ response.value[1][1] <= response.args[4] * response.value[1][2]

\* the volunteer of a returned row is where the event is and has a slot that
\* meets the event's window on its weekday
AtEventWithSlot(v, e) ==
    /\ volunteer_location[v] = event_row[e].location
    /\ SlotMeetsEvent(volunteer_weekly_schedule[v], event_row[e].day,
                      event_row[e].start_time, event_row[e].end_time)

\* C22: the total score of a candidate is the sum of its skill, schedule and
\* location scores under the weights 2, 4, 4: a volunteer at the event's own
\* location with a slot that meets the event and both skills the event needs
\* scores 10, and the same volunteer without a matching skill scores 8.
C22_TotalScore ==
    Returned(MatchVolunteersOp) =>
        \A i \in 1..Len(response.value) :
            LET v == response.value[i].id
                e == response.event_id
                total == response.value[i].total_score
                skills == Min(Cardinality(volunteer_skill[v] \cap event_skill[e]), 2)
                schedule == IF SlotMeetsEvent(volunteer_weekly_schedule[v],
                                   event_row[e].day, event_row[e].start_time,
                                   event_row[e].end_time)
                            THEN 4 ELSE 0
                location == distance_based_location_score(
                                distance_expr(ST_Distance(event_row[e].location[1],
                                                          volunteer_location[v][1]),
                                              response.args[2]),
                                response.args[1], 4)
            IN /\ total[2] = location[2]
               /\ total[1] = (skills + schedule) * total[2] + location[1]
               /\ (AtEventWithSlot(v, e) /\ Cardinality(event_skill[e]) = 2
                   /\ event_skill[e] \subseteq volunteer_skill[v])
                  => total[1] = 10 * total[2]
               /\ (AtEventWithSlot(v, e) /\ volunteer_skill[v] \cap event_skill[e] = {})
                  => total[1] = 8 * total[2]

\* the case of C22: a call returned a volunteer with the two skills and one
\* without any, both at the event's location with a slot that meets it, with
\* the totals 10 and 8
C22_Witness ==
    /\ Returned(MatchVolunteersOp)
    /\ Len(response.value) = 2
    /\ \A i \in 1..2 : AtEventWithSlot(response.value[i].id, response.event_id)
    /\ Cardinality(event_skill[response.event_id]) = 2
    /\ volunteer_skill[response.value[1].id] = event_skill[response.event_id]
    /\ volunteer_skill[response.value[2].id] = {}
    /\ response.value[1].total_score[1] = 10 * response.value[1].total_score[2]
    /\ response.value[2].total_score[1] = 8 * response.value[2].total_score[2]

\* the skill and the schedule score of volunteer v for event e under the
\* default weights
SkillPart(v, e) == Min(Cardinality(volunteer_skill[v] \cap event_skill[e]), 2)

SchedulePart(v, e) ==
    IF SlotMeetsEvent(volunteer_weekly_schedule[v], event_row[e].day,
                      event_row[e].start_time, event_row[e].end_time)
    THEN 4 ELSE 0

\* the location score in the total of a returned row, as a numerator
LocationPart(row, e) ==
    row.total_score[1] - (SkillPart(row.id, e) + SchedulePart(row.id, e)) * row.total_score[2]

\* C23: in match_volunteers_to_event missing data counts as a non-match: in
\* the list a call returns, a volunteer without skills has the skill score 0,
\* one without slots has the schedule score 0, and every volunteer without a
\* location is ranked with the location score 0.
C23_AbsenceScoresZero ==
    Returned(MatchVolunteersOp) =>
        LET e == response.event_id
            rows == {response.value[i] : i \in 1..Len(response.value)}
        IN /\ \A row \in rows :
                  volunteer_skill[row.id] = {} =>
                      row.total_score[1] - SchedulePart(row.id, e) * row.total_score[2]
                          \in 0..(4 * row.total_score[2])
           /\ \A row \in rows :
                  volunteer_weekly_schedule[row.id] = {} =>
                      row.total_score[1] - SkillPart(row.id, e) * row.total_score[2]
                          \in 0..(4 * row.total_score[2])
           /\ \A v \in Volunteers :
                  volunteer_location[v] = <<>> =>
                      \E row \in rows : row.id = v /\ LocationPart(row, e) = 0

\* C24: match_events_to_volunteer raises NotFoundError for a volunteer id
\* without a row and ValidationError for a volunteer without a location, and
\* returns no list in either case; a volunteer with a location is accepted
\* also without skills and without slots, and the query then returns a list
\* (for a radius > 0) in which no score exceeds the location weight.
C24_MatchEventsErrors ==
    [][\A s \in Sessions :
         /\ \A v \in VolunteerIds, d \in Distances, u \in DistanceUnits :
                match_events_get(s, v, d, u) =>
                    IF v \notin Volunteers
                    THEN /\ response'.op = MatchEventsOp
                         /\ response'.result = "NotFoundError"
                         /\ response'.status_code = 404
                         /\ response'.value = <<>>
                         /\ sess'[s] = Idle
                    ELSE IF volunteer_location[v] = <<>>
                    THEN /\ response'.op = MatchEventsOp
                         /\ response'.result = "ValidationError"
                         /\ response'.status_code = 422
                         /\ response'.value = <<>>
                         /\ sess'[s] = Idle
                    ELSE /\ response' = NoResponse
                         /\ sess'[s].pc = "match_events_query"
                         /\ sess'[s].volunteer_id = v
         /\ (sess[s].pc = "match_events_query" /\ Steps(s) /\ sess[s].args[1] > 0)
            => /\ response'.op = MatchEventsOp
               /\ response'.result = "ok"
               /\ (/\ volunteer_skill[sess[s].volunteer_id] = {}
                   /\ volunteer_weekly_schedule[sess[s].volunteer_id] = {})
                  => \A i \in 1..Len(response'.value) :
                         response'.value[i].total_score[1]
                             <= LOCATION_MAX * response'.value[i].total_score[2]]_vars

\* the case of C24: a volunteer with a location, without skills and without
\* slots got a list with an event in it
C24_Witness ==
    /\ Returned(MatchEventsOp)
    /\ response.volunteer_id \in Volunteers
    /\ volunteer_location[response.volunteer_id] # <<>>
    /\ volunteer_skill[response.volunteer_id] = {}
    /\ volunteer_weekly_schedule[response.volunteer_id] = {}
    /\ response.value # <<>>
    /\ \E v \in Volunteers : volunteer_location[v] = <<>>

\* two slots of one day have a time in common, their endpoints included
SlotsOverlap(a, b) ==
    /\ a.day = b.day
    /\ a.start <= b.end
    /\ b.start <= a.end

\* C25: the validation of VolunteerCreate accepts a list of slots exactly
\* when every slot has start < end and no two slots of the list overlap on
\* the same day, slots that share an endpoint or a start included; and the
\* slots create_volunteer stores are those of the list, so they do not
\* overlap pairwise.
C25_NonOverlappingSlots ==
    response.op = "create_volunteer" =>
        LET available_times == response.args[1]
            N == Len(available_times)
        IN /\ response.result \in {"ok", "ValidationError"}
           /\ response.result = "ok" <=>
                  /\ \A i \in 1..N : available_times[i].start < available_times[i].end
                  /\ \A i, j \in 1..N :
                         i # j => ~SlotsOverlap(available_times[i], available_times[j])
           /\ response.result = "ok" =>
                  /\ Cardinality(volunteer_weekly_schedule[response.volunteer_id]) = N
                  /\ \A t, u \in volunteer_weekly_schedule[response.volunteer_id] :
                         /\ t.start_time < t.end_time
                         /\ (t # u /\ t.day_of_week = u.day_of_week)
                            => (t.end_time < u.start_time \/ u.end_time < t.start_time)

\* the case of C25: a list of three slots, each with start < end, the first
\* and the third on one day and given out of order, the second on another
\* day, was turned down because the first starts when the third ends
C25_Witness ==
    /\ response.op = "create_volunteer"
    /\ response.result = "ValidationError"
    /\ Len(response.args[1]) = 3
    /\ \A i \in 1..3 : response.args[1][i].start < response.args[1][i].end
    /\ response.args[1][1].day = 1
    /\ response.args[1][3].day = 1
    /\ response.args[1][2].day = 2
    /\ response.args[1][1].start = response.args[1][3].end
    /\ volunteer_weekly_schedule[1] = {}

\* C26: every stored event has start_time < end_time, whatever creations and
\* updates were made: a creation with start_time >= end_time stores nothing,
\* and an update that carries day, start_time or end_time leaves the stored
\* window as it was.
C26_EventWindow ==
    \A e \in events : event_row[e].start_time < event_row[e].end_time

\* the case of C26: the update that carries day 5, start_time 1 and
\* end_time 0 was committed (the event has the name it sets) and the event
\* still has the day and the window it was created with
C26_Witness ==
    /\ response.op = "update_org_event"
    /\ response.result = "ok"
    /\ response.event_id \in events
    /\ event_row[response.event_id].name = "Food drive"
    /\ event_row[response.event_id].day = 4
    /\ event_row[response.event_id].start_time = 2
    /\ event_row[response.event_id].end_time = 3

\* C27: GET /vol/{volunteer_id}/match goes on to the matching for a caller
\* whose token carries the volunteer's own id and for an admin, and rejects
\* every other caller with AuthorizationError before anything is matched.
C27_MatchAuthorization ==
    [][\A s \in Sessions, v \in VolunteerIds, user \in UserTokenInfo :
         volunteer_event_matches(s, v, user) =>
             IF user.user_id = v \/ is_admin(user)
             THEN response'.result # "AuthorizationError"
             ELSE /\ response'.op = "volunteer_event_matches"
                  /\ response'.result = "AuthorizationError"
                  /\ response'.status_code = 403
                  /\ sess'[s] = Idle]_vars

\* the rows and the counters a request on the pair (v, e) has no business with
OtherPairsUnchanged(v, e) ==
    /\ \A p \in EventKeys \X Volunteers :
           p # <<e, v>> => event_volunteer'[p] = event_volunteer[p]
    /\ \A f \in EventKeys \ {e} :
           /\ assigned'[f] = assigned[f]
           /\ capacity'[f] = capacity[f]

\* C28: a step of a signup or a withdrawal for the pair (v, e), whether it
\* succeeds or fails, leaves the enrollment of every other pair and the
\* assigned and capacity of every other event unchanged; with the requests of
\* different sessions on different events, every request then ends as it
\* would alone: a commit finds the event as the request read it, succeeds and
\* moves assigned by one, so assigned stays the number of enrolled volunteers
\* in every interleaving.
C28_OtherPairsUntouched ==
    [][\A s \in Sessions :
         /\ \A v \in VolunteerIds :
                (\/ signup_get_volunteer(s, v, EventOf(s))
                 \/ remove_get_event_volunteer(s, v, EventOf(s)))
                => UNCHANGED <<event_volunteer, assigned, capacity>>
         /\ (sess[s].pc # "idle" /\ Steps(s))
            => /\ OtherPairsUnchanged(sess[s].volunteer_id, sess[s].event_id)
               /\ \A t \in Sessions \ {s} : sess'[t] = sess[t]
         /\ (sess[s].pc = "signup_commit" /\ Steps(s))
            => /\ response'.result = "ok"
               /\ sess[s].found_assigned = assigned[sess[s].event_id]
               /\ assigned'[sess[s].event_id] = assigned[sess[s].event_id] + 1
               /\ event_volunteer'[<<sess[s].event_id, sess[s].volunteer_id>>] = 1
         /\ (sess[s].pc = "remove_commit" /\ Steps(s))
            => /\ response'.result = "ok"
               /\ sess[s].found_assigned = assigned[sess[s].event_id]
               /\ assigned'[sess[s].event_id] = assigned[sess[s].event_id] - 1
               /\ event_volunteer'[<<sess[s].event_id, sess[s].volunteer_id>>] = 0
         /\ \A e \in EventKeys : assigned'[e] = Enrolled(e)'
                                 /\ assigned'[e] <= capacity'[e]]_vars

\* the case of C28: a withdrawal from one event has just succeeded while
\* the session on the other event is between its read and its commit, and
\* the other volunteer of the first event is still enrolled
C28_Witness ==
    /\ response.op = "remove_volunteer_event"
    /\ response.result = "ok"
    /\ response.event_id = 1
    /\ \E v \in Volunteers \ {response.volunteer_id} : event_volunteer[<<1, v>>] = 1
    /\ event_volunteer[<<1, response.volunteer_id>>] = 0
    /\ \E t \in Sessions : /\ sess[t].pc = "signup_commit"
                           /\ sess[t].event_id # 1

\* C29: a withdrawal that finds the row of (v, e) while assigned of e is 0
\* raises and leaves the row and assigned as they were; and no committed
\* state has an enrollment row on an event whose assigned is 0, whatever
\* signups and withdrawals were interleaved.
C29_NoRowAtZero ==
    /\ [][\A s \in Sessions :
            (/\ sess[s].pc = "remove_load_event"
             /\ assigned[sess[s].event_id] = 0
             /\ Steps(s))
            => /\ response'.op = "remove_volunteer_event"
               /\ response'.result = "ValidationError"
               /\ UNCHANGED <<event_volunteer, assigned>>]_vars
    /\ [](\A e \in events, v \in Volunteers :
              event_volunteer[<<e, v>>] > 0 => assigned[e] > 0)

\* C30: when an update that lowers the capacity of an event and a signup on
\* the same event have both read the event before either commits, the one
\* that commits second is rejected whenever its write would give
\* assigned > capacity, and it changes nothing; so no committed state has
\* assigned > capacity.
C30_UpdateSignupSerialize ==
    [][\A s \in Sessions :
         /\ (/\ sess[s].pc = "update_commit"
             /\ sess[s].new_capacity # <<>>
             /\ assigned[sess[s].event_id] > sess[s].new_capacity[1]
             /\ Steps(s))
            => /\ response'.op = UpdateOp
               /\ response'.result = "DatabaseOperationError"
               /\ UNCHANGED db
         /\ (/\ sess[s].pc = "signup_commit"
             /\ sess[s].found_assigned + 1 > capacity[sess[s].event_id]
             /\ Steps(s))
            => /\ response'.op = "signup_volunteer_event"
               /\ response'.result = "DatabaseOperationError"
               /\ UNCHANGED db
         /\ \A e \in events' : assigned'[e] <= capacity'[e]]_vars

\* the case of C30: a signup passed its capacity check, an update then
\* lowered the capacity to the number assigned, and the signup was rejected
\* at its commit although the volunteer has no row yet
C30_Witness ==
    /\ response.op = "signup_volunteer_event"
    /\ response.result = "DatabaseOperationError"
    /\ response.event_id \in events
    /\ response.volunteer_id \in Volunteers
    /\ event_volunteer[<<response.event_id, response.volunteer_id>>] = 0
    /\ assigned[response.event_id] = capacity[response.event_id]

====
